---------------------------- MODULE Spec2Model ----------------------------
(***************************************************************************)
(* Valync: async-state hooks for React and Vue.                            *)
(*                                                                         *)
(* The model covers the request coordinator of a binding instance          *)
(* (useValync / createValyn in src/src/react/index.ts and                  *)
(* src/src/vue/index.ts), the module-level cache each binding keeps, and   *)
(* the AsyncObserver of the core (src/unnamed/part_003).                   *)
(*                                                                         *)
(* One step of the model is one call of a handler: a trigger (mount       *)
(* effect, watch/interval callback, the manual trigger), a setData call,   *)
(* an unmount, one promise callback of a transport call, or one run of the *)
(* effect that hands the rendered state to the observer.  The transport is *)
(* the environment: a call in flight may resolve with a success envelope,  *)
(* resolve with a failed envelope, or reject, at any later time and in any *)
(* order, whether or not its signal was aborted.                           *)
(* The model is of the client side (isClient is true).                     *)
(* The callbacks onData, onSuccess and onError are taken not to throw, and *)
(* a Vue instance is given options.init (vue/index.ts reads                *)
(* options.init.value without a default).  Triggers and setData are calls  *)
(* made while the component is mounted.                                    *)
(***************************************************************************)
EXTENDS Integers, Sequences, FiniteSets, TLC

\* ------------------------------------------------------------------ bounds
MaxRetry == 1      \* largest retryCount an instance is configured with
MaxTrig == 2       \* doFetch runs per instance
MaxData == 2       \* payloads the transport returns are 1..MaxData
MaxVal == 3        \* largest value setData may produce
MaxLog == 2        \* length of a listener's log of deliveries
MaxParams == 2     \* parameters of a structured key descriptor
MaxRenders == 2    \* calls of the hook function of one instance
MaxHeap == 2       \* AsyncValue objects constructed for one state slot

\* ------------------------------------------------------------ AsyncValue
None == [some |-> FALSE, val |-> 0]
Some(v) == [some |-> TRUE, val |-> v]

AsyncLoading == [tag |-> "loading"]
AsyncError(e) == [tag |-> "error", error |-> e]
AsyncData(o) == [tag |-> "data", value |-> o]

isLoading(a) == a.tag = "loading"
isData_notLoading(a) == a.tag # "loading"
isData(a) == a.tag = "data"
isError(a) == a.tag = "error"

\* --------------------------------------------------------------- envelopes
NoCode == "undefined"
ErrorInfo(n, m, c) == [name |-> n, message |-> m, code |-> c]
ValidationError == ErrorInfo("ValidationError", "bad input", "422")
EnvelopeErrors == {ValidationError}
ErrMessage == "net down"    \* err.message of a rejected transport call

Success(d) == [status |-> "success", data |-> d]
Failed(e) == [status |-> "failed", error |-> e]

Payloads == 1..MaxData
InitialDatas == {[given |-> FALSE]}
                  \cup {[given |-> TRUE, env |-> Success(d)] : d \in {1}}
                  \cup {[given |-> TRUE, env |-> Failed(e)] : e \in EnvelopeErrors}

\* ------------------------------------------------------------ cache keys
\* A CacheKey is a string or a structured descriptor {url, ...params}.
StrKey(s) == [isString |-> TRUE, str |-> s, url |-> "", params |-> <<>>]
ObjKey(u, ps) == [isString |-> FALSE, str |-> "", url |-> u, params |-> ps]

\* URLSearchParams.toString(): application/x-www-form-urlencoded
UrlEncode(s) ==
    CASE s = "a b" -> "a+b"
      [] s = "x&y" -> "x%26y"
      [] OTHER -> s

RECURSIVE SearchToString(_)
SearchToString(ps) ==
    IF ps = <<>> THEN ""
    ELSE LET p == ps[1]
             head == UrlEncode(p[1]) \o "=" \o UrlEncode(p[2])
         IN  IF Len(ps) = 1 THEN head
             ELSE head \o "&" \o SearchToString(Tail(ps))

normalizeKey_urlOnly(key) == IF key.isString THEN key.str ELSE key.url
normalizeKey(key) ==
    IF key.isString THEN key.str
    ELSE key.url \o "?" \o SearchToString(key.params)

InstanceKeys == {ObjKey("/a", <<<<"id", "1">>>>)}

\* ---------------------------------------------------------------- updaters
\* The value setData hands to the updater: T | null
JsNull == [isNull |-> TRUE, v |-> 0]
JsVal(x) == [isNull |-> FALSE, v |-> x]
Updaters == {"inc", "one"}
\* "inc" is (prev) => prev + 1 (null + 1 is 1 in JavaScript); "one" is () => 1
Apply(u, cur) ==
    IF u = "inc" THEN (IF cur.isNull THEN 1 ELSE cur.v + 1) ELSE 1

Inst == {"A"}
Listeners == {"l1", "l2"}

VARIABLES
    binding,        \* "react" or "vue": which index.ts the page uses
    opt,            \* per instance: the options of the hook call
    phase,          \* per instance: "init" (rendered), "mounted", "unmounted"
    state,          \* per instance: the AsyncValue (useState / ref)
    cache,          \* the module-level Map<string, AsyncData>
    controllerRef,  \* per instance: id of the current AbortController, 0 = none
    aborted,        \* per instance: ids of the controllers that were aborted
    inflight,       \* transport calls awaiting their promise callback
    calls,          \* per instance and doFetch run: transport invocations
    thrown,         \* per instance and doFetch run: rejections delivered
    last,           \* the step just taken
    current,        \* AsyncObserver._current
    listeners,      \* AsyncObserver.listeners
    received,       \* per listener: the values it was called with
    owed,           \* per listener: transitions made while it was subscribed
                    \*   and not yet handed to it, oldest first
    pure            \* arguments and result of the pure function under test

vars == <<binding, opt, phase, state, cache, controllerRef, aborted, inflight,
          calls, thrown, last, current, listeners, received, owed, pure>>
bindingVars == <<binding, opt, phase, state, cache, controllerRef, aborted,
                 inflight, calls, thrown>>
observerVars == <<current, listeners, received, owed>>

keyStr(i) == normalizeKey(opt[i].key)

\* ------------------------------------------------------------------- Map
has(m, k) == k \in DOMAIN m
set_ifAbsent(m, k, v) ==
    [x \in DOMAIN m \cup {k} |-> IF x \in DOMAIN m THEN m[x] ELSE v]
set(m, k, v) == [x \in DOMAIN m \cup {k} |-> IF x = k THEN v ELSE m[x]]
delete_clear(m, k) == [x \in {} |-> m[x]]
delete(m, k) == [x \in DOMAIN m \ {k} |-> m[x]]
EmptyMap == [x \in {} |-> AsyncLoading]


\* ------------------------------------------------------------- options
\* options.cache !== false, options.retryCount ?? 0, options.fetchOnMount !== false
\* the payloads null and undefined (not among Payloads)
NullData == 0
UndefinedData == 0 - 1
\* onData transforms: none configured, one that maps every payload to another
\* payload, one that maps every payload to null
Transforms == {"none", "inc", "toNull"}

\* watch: a list of watched values was given (options.watch)
ValyncOptions == [api : {"useValync", "createValyn"},
                  key : InstanceKeys,
                  cache : BOOLEAN,
                  retryCount : 0..MaxRetry,
                  fetchOnMount : BOOLEAN,
                  initialData : InitialDatas,
                  watch : BOOLEAN,
                  onData : Transforms]

\* instances refetched by a timer (options.fetchInterval), no watch list and
\* no transform given
Options == {o \in ValyncOptions : ~o.watch /\ o.onData = "none"}

\* options.onData?.(res.data): undefined when no transform is configured
onData(o, d) ==
    CASE o.onData = "inc" -> d + 1
      [] o.onData = "toNull" -> NullData
      [] OTHER -> UndefinedData

\* options.onData?.(res.data) ?? res.data
SuccessData(o, d) ==
    IF onData(o, d) \in {NullData, UndefinedData} THEN d ELSE onData(o, d)

cacheEnabled(i) == opt[i].cache

InitialState_cacheFirst(o, c) ==
    IF o.cache /\ has(c, normalizeKey(o.key))
    THEN c[normalizeKey(o.key)]
    ELSE IF o.initialData.given
         THEN IF o.initialData.env.status = "success"
              THEN AsyncData(Some(o.initialData.env.data))
              ELSE AsyncError(o.initialData.env.error)
         ELSE AsyncData(None)
\* the useState initializer / initialValue of the hook call
InitialState(o, c) ==
    IF o.initialData.given
    THEN IF o.initialData.env.status = "success"
         THEN AsyncData(Some(o.initialData.env.data))
         ELSE AsyncError(o.initialData.env.error)
    ELSE IF o.cache /\ has(c, normalizeKey(o.key))
         THEN c[normalizeKey(o.key)]
         ELSE AsyncData(None)

\* the error of a transport call that rejected with the budget exhausted
NetworkError(i) ==
    IF binding = "vue" /\ opt[i].api = "createValyn"
    THEN ErrorInfo("NetworkError", ErrMessage, "500")
    ELSE ErrorInfo("NetworkError", ErrMessage, NoCode)

\* ------------------------------------------------------------- history
NoRes == [status |-> "none"]
Thrown == [status |-> "thrown"]
Event(kind, i, ctl, hit, res, pre, u) ==
    [kind |-> kind, inst |-> i, ctl |-> ctl, hit |-> hit, res |-> res,
     pre |-> pre, u |-> u]

\* ------------------------------------------------------------- requests
\* recorded with a trigger: caching was on and the key had an entry
HadEntry(i) == opt[i].cache /\ keyStr(i) \in DOMAIN cache

\* a pending call of attempt(tries): ctl is the doFetch run whose closure
\* issued it, sig the controller whose signal was passed to the transport
Request(i, ctl, sig, tries) ==
    [inst |-> i, ctl |-> ctl, sig |-> sig, tries |-> tries]

\* the instance whose observer handle the listeners subscribe to
ObservedInst == "A"

\* a binding handler leaves the observer alone: the state reaches it later,
\* through the sync effect; the transition is owed to the subscribed listeners
Notify(i) ==
    LET changed == i = ObservedInst /\ state'[i] # state[i] IN
    /\ changed => \A l \in listeners : Len(owed[l]) < MaxLog
    /\ owed' = [l \in Listeners |->
                  IF changed /\ l \in listeners
                  THEN Append(owed[l], state'[i]) ELSE owed[l]]
    /\ UNCHANGED <<current, listeners, received, pure>>

\* setState of an unmounted React component is dropped; a Vue ref stays writable
SetState(i, v) ==
    IF binding = "react" /\ phase[i] = "unmounted"
    THEN state
    ELSE [state EXCEPT ![i] = v]

ReactSignalAborted_current(r) == controllerRef[r.inst] \in aborted[r.inst]
\* React: `ctrl.signal.aborted`, ctrl being the controller of the doFetch run
ReactSignalAborted(r) == r.ctl \in aborted[r.inst]
\* Vue: `controller.value!.signal.aborted`, read when the callback runs
VueSignalAborted(r) == controllerRef[r.inst] \in aborted[r.inst]

SignalAborted_always(r) == TRUE
SignalAborted(r) ==
    IF binding = "react" THEN ReactSignalAborted(r) ELSE VueSignalAborted(r)

CacheHit_flagInverted(i, c) == ~cacheEnabled(i) /\ has(c, keyStr(i))
\* options.cache !== false && cache.has(keyStr)
CacheHit(i, c) == cacheEnabled(i) /\ has(c, keyStr(i))

\* attempt(options.retryCount ?? 0)
InitialTries_spent(i) == 0
InitialTries(i) == opt[i].retryCount

ShouldRetry_offByOne(tries) == tries >= 0
\* if (tries > 0) return attempt(tries - 1)
ShouldRetry(tries) == tries > 0

AbortCurrent_moduleLevel(i) ==
    [j \in DOMAIN aborted |-> IF controllerRef[j] = 0 THEN aborted[j]
                              ELSE aborted[j] \cup {controllerRef[j]}]
\* controllerRef.current?.abort(): the ref belongs to the hook call
AbortCurrent(i) ==
    [aborted EXCEPT ![i] = IF controllerRef[i] = 0 THEN @
                           ELSE @ \cup {controllerRef[i]}]

\* doFetch, run against the cache c (the manual trigger evicts first)
doFetch(i, c, kind, hadEntry) ==
    LET ctl == controllerRef[i] + 1 IN
    /\ ctl <= MaxTrig
    /\ aborted' = AbortCurrent(i)
    /\ controllerRef' = [controllerRef EXCEPT ![i] = ctl]
    /\ IF CacheHit(i, c)
       THEN /\ state' = SetState(i, c[keyStr(i)])
            /\ cache' = c
            /\ UNCHANGED <<inflight, calls>>
       ELSE /\ state' = SetState(i, AsyncLoading)
            /\ cache' = c
            /\ inflight' = inflight \cup {Request(i, ctl, ctl, InitialTries(i))}
            /\ calls' = [calls EXCEPT ![i][ctl] = @ + 1]
    /\ last' = Event(kind, i, ctl, hadEntry, NoRes, "", "")
    /\ UNCHANGED <<binding, opt, thrown>>

\* AsyncObserver.set: _current and one call of every listener
Deliver(val) ==
    /\ \A l \in listeners : Len(received[l]) < MaxLog
    /\ current' = val
    /\ received' = [l \in Listeners |->
                      IF l \in listeners THEN Append(received[l], val)
                      ELSE received[l]]

\* React runs the sync effect once with the first render's state, right after
\* the mount effect; Vue's watch(state) does not run until state changes
MountSync(i) ==
    IF binding = "react" /\ i = ObservedInst
    THEN /\ Deliver(state[i])
         /\ owed' = [l \in Listeners |->
                       IF l \in listeners /\ state'[i] # state[i]
                       THEN Append(owed[l], state'[i]) ELSE owed[l]]
         /\ UNCHANGED <<listeners, pure>>
    ELSE Notify(i)

\* React with options.watch given: the watch effect is a useEffect, so it
\* runs after the first render too, right after the mount effect, and calls
\* doFetch whatever fetchOnMount and initialData say. The two effects run
\* in one commit: the mount effect's doFetch (if any) is run ctl1, the watch
\* effect's doFetch aborts it and is run ctl.
MountWatched(i) ==
    LET first == opt[i].fetchOnMount /\ ~opt[i].initialData.given
        ctl1 == controllerRef[i] + 1
        ctl == IF first THEN ctl1 + 1 ELSE ctl1
        runs == IF first THEN {ctl1, ctl} ELSE {ctl}
    IN
    /\ ctl <= MaxTrig
    /\ aborted' = [AbortCurrent(i) EXCEPT
                     ![i] = IF first THEN @ \cup {ctl1} ELSE @]
    /\ controllerRef' = [controllerRef EXCEPT ![i] = ctl]
    /\ IF CacheHit(i, cache)
       THEN /\ state' = SetState(i, cache[keyStr(i)])
            /\ UNCHANGED <<cache, inflight, calls>>
       ELSE /\ state' = SetState(i, AsyncLoading)
            /\ inflight' = inflight \cup
                             {Request(i, c, c, InitialTries(i)) : c \in runs}
            /\ calls' = [calls EXCEPT
                           ![i] = [c \in DOMAIN @ |->
                                     IF c \in runs THEN @[c] + 1 ELSE @[c]]]
            /\ UNCHANGED cache
    /\ last' = Event("mount", i, ctl, HadEntry(i), NoRes, "", "")
    /\ UNCHANGED <<binding, opt, thrown>>

\* the mount effect (React useEffect [keyStr], Vue onMounted); Vue's
\* watch(options.watch, ..) is lazy and does not run at mount
Mount(i) ==
    /\ phase[i] = "init"
    /\ phase' = [phase EXCEPT ![i] = "mounted"]
    /\ IF binding = "react" /\ opt[i].watch
       THEN MountWatched(i)
       ELSE IF opt[i].fetchOnMount /\ ~opt[i].initialData.given
       THEN doFetch(i, cache, "mount", HadEntry(i))
       ELSE /\ last' = Event("mount", i, 0, FALSE, NoRes, "", "")
            /\ UNCHANGED <<binding, opt, state, cache, controllerRef, aborted,
                           inflight, calls, thrown>>
    /\ MountSync(i)

\* a change of a watched value, or a tick of the fetchInterval timer
WatchOrInterval(i) ==
    /\ phase[i] = "mounted"
    /\ doFetch(i, cache, "watch", HadEntry(i))
    /\ UNCHANGED phase
    /\ Notify(i)

EvictedCache_kept(i) == cache
\* cache.delete(normalizeKey(keyStr))
EvictedCache(i) == delete(cache, normalizeKey(StrKey(keyStr(i))))

\* the manual trigger: second element of the returned tuple
fetchFn(i) ==
    /\ phase[i] = "mounted"
    /\ doFetch(i, EvictedCache(i), "fetchFn", HadEntry(i))
    /\ UNCHANGED phase
    /\ Notify(i)

ReactSetDataApplies_always(prev) == TRUE
\* React: setState(prev => prev instanceof AsyncData ? ... : prev)
ReactSetDataApplies(prev) == isData(prev)
\* Vue: no test of the variant; a non-AsyncData state reads as null
VueSetDataApplies(prev) == TRUE

SetDataApplies(prev) ==
    IF binding = "react" THEN ReactSetDataApplies(prev)
    ELSE VueSetDataApplies(prev)

CurrentOf_null(prev) == JsNull
\* prev.value.isSome() ? prev.value.unwrap() : null
CurrentOf(prev) ==
    IF isData(prev) /\ prev.value.some THEN JsVal(prev.value.val) ELSE JsNull

setData_refetch(i, u) ==
    /\ phase[i] = "mounted"
    /\ doFetch(i, cache, "setData", HadEntry(i))
    /\ UNCHANGED phase
    /\ Notify(i)
\* setData(updater)
setData(i, u) ==
    LET prev == state[i]
        newData == AsyncData(Some(Apply(u, CurrentOf(prev))))
    IN
    /\ phase[i] = "mounted"
    /\ Apply(u, CurrentOf(prev)) <= MaxVal
    /\ IF SetDataApplies(prev)
       THEN /\ cache' = IF cacheEnabled(i) THEN set(cache, keyStr(i), newData)
                        ELSE cache
            /\ state' = SetState(i, newData)
       ELSE UNCHANGED <<state, cache>>
    /\ last' = Event("setData", i, 0, FALSE, NoRes, prev.tag, u)
    /\ UNCHANGED <<binding, opt, phase, controllerRef, aborted, inflight,
                   calls, thrown>>
    /\ Notify(i)

\* React: the mount effect returns its cleanup only when it did not return early
CleanupAborts(i) ==
    IF binding = "react" THEN ~opt[i].initialData.given ELSE TRUE

Unmount(i) ==
    /\ phase[i] = "mounted"
    /\ phase' = [phase EXCEPT ![i] = "unmounted"]
    /\ aborted' = IF CleanupAborts(i) THEN AbortCurrent(i) ELSE aborted
    /\ last' = Event("unmount", i, 0, FALSE, NoRes, "", "")
    /\ UNCHANGED <<binding, opt, state, cache, controllerRef, inflight,
                   calls, thrown>>
    /\ Notify(i)

\* .then((res) => ...) with res.status === "success"
ThenSuccess(r, d) ==
    LET i == r.inst
        sd == AsyncData(Some(SuccessData(opt[i], d)))
    IN
    /\ r \in inflight
    /\ inflight' = inflight \ {r}
    /\ IF SignalAborted(r)
       THEN UNCHANGED <<state, cache>>
       ELSE /\ cache' = IF cacheEnabled(i) THEN set(cache, keyStr(i), sd)
                        ELSE cache
            /\ state' = SetState(i, sd)
    /\ UNCHANGED <<binding, opt, phase, controllerRef, aborted, calls, thrown>>
    /\ Notify(i)

\* a call of one of the callbacks given in the options
onSuccess(d) ==
    [cb |-> "onSuccess", data |-> d, error |-> ErrorInfo("", "", NoCode)]
onError(e) == [cb |-> "onError", data |-> 0, error |-> e]

\* the callbacks the success branch calls: options.onSuccess?.(data)
ThenSuccessCalls(r, d) ==
    IF SignalAborted(r) THEN <<>>
    ELSE <<onSuccess(SuccessData(opt[r.inst], d))>>

\* the callbacks the failed branch calls: options.onError?.(res.error); the
\* failed branch of Vue's useValync only sets state.value
ThenFailedCalls(r, e) ==
    IF SignalAborted(r) THEN <<>>
    ELSE IF binding = "vue" /\ opt[r.inst].api = "useValync" THEN <<>>
    ELSE <<onError(e)>>

\* the callbacks the catch callback calls: none when it returns on the
\* signal or retries, else options.onError?.({name: "NetworkError", ..})
CatchCalls(r) ==
    IF SignalAborted(r) \/ ShouldRetry(r.tries) THEN <<>>
    ELSE <<onError(NetworkError(r.inst))>>

\* the record of a promise callback that ran: the event and the calls of
\* option callbacks it made
Settled(kind, r, res, cbs) ==
    [kind |-> kind, inst |-> r.inst, ctl |-> r.ctl, hit |-> FALSE,
     res |-> res, pre |-> "", u |-> "", cb |-> cbs]

\* the transport resolved with a success envelope
TransportResolve(r, d) ==
    /\ ThenSuccess(r, d)
    /\ last' = Settled("resolve", r, Success(d), ThenSuccessCalls(r, d))

FailedState_synthetic(e) == AsyncError(ErrorInfo("HttpError", e.message, e.code))
\* setState(new AsyncError(res.error))
FailedState(e) == AsyncError(e)

ThenFailed_cached(r, e) ==
    LET i == r.inst IN
    /\ r \in inflight
    /\ inflight' = inflight \ {r}
    /\ IF SignalAborted(r)
       THEN UNCHANGED <<state, cache>>
       ELSE /\ state' = SetState(i, FailedState(e))
            /\ cache' = IF cacheEnabled(i)
                        THEN set(cache, keyStr(i), FailedState(e)) ELSE cache
    /\ UNCHANGED <<binding, opt, phase, controllerRef, aborted, calls, thrown>>
    /\ Notify(i)
\* .then((res) => ...) with res.status === "failed"
ThenFailed(r, e) ==
    LET i == r.inst IN
    /\ r \in inflight
    /\ inflight' = inflight \ {r}
    /\ IF SignalAborted(r)
       THEN UNCHANGED state
       ELSE state' = SetState(i, FailedState(e))
    /\ UNCHANGED <<binding, opt, phase, cache, controllerRef, aborted, calls,
                   thrown>>
    /\ Notify(i)

\* the transport resolved with a failed envelope
TransportFailed(r, e) ==
    /\ ThenFailed(r, e)
    /\ last' = Settled("failed", r, Failed(e), ThenFailedCalls(r, e))

\* .catch((err) => ...): the promise chain of the call rejected.  The signal
\* the next attempt() passes to the transport is React's `ctrl.signal`, the
\* controller of the closure, and Vue's `controller.value!.signal`, the
\* current one
Catch(r) ==
    LET i == r.inst IN
    /\ r \in inflight
    /\ thrown' = [thrown EXCEPT ![i][r.ctl] = @ + 1]
    /\ IF SignalAborted(r)
       THEN /\ inflight' = inflight \ {r}
            /\ UNCHANGED <<state, calls>>
       ELSE IF ShouldRetry(r.tries)
            THEN /\ inflight' = (inflight \ {r})
                       \cup {Request(i, r.ctl,
                                     IF binding = "react" THEN r.ctl
                                     ELSE controllerRef[i],
                                     r.tries - 1)}
                 /\ calls' = [calls EXCEPT ![i][r.ctl] = @ + 1]
                 /\ UNCHANGED state
            ELSE /\ inflight' = inflight \ {r}
                 /\ state' = SetState(i, AsyncError(NetworkError(i)))
                 /\ UNCHANGED calls
    /\ UNCHANGED <<binding, opt, phase, cache, controllerRef, aborted>>
    /\ Notify(i)

\* the transport call rejected
TransportThrow(r) ==
    /\ Catch(r)
    /\ last' = Settled("throw", r, Thrown, CatchCalls(r))

\* ------------------------------------------------------------- observer
\* AsyncObserver.set
ObserverSet(val) ==
    /\ Deliver(val)
    /\ owed' = [l \in Listeners |->
                  IF l \in listeners /\ owed[l] # <<>>
                  THEN Tail(owed[l]) ELSE owed[l]]
    /\ last' = Event("set", "", 0, FALSE, NoRes, "", "")
    /\ UNCHANGED <<listeners, bindingVars, pure>>

\* AsyncObserver.listen: replays _current, then registers
listen(l) ==
    /\ Len(received[l]) < MaxLog
    /\ received' = [received EXCEPT ![l] = Append(@, current)]
    /\ listeners' = listeners \cup {l}
    /\ owed' = [owed EXCEPT ![l] = <<>>]
    /\ last' = Event("listen", l, 0, FALSE, NoRes, "", "")
    /\ UNCHANGED <<current, bindingVars, pure>>

\* AsyncObserver.observer().listen: the handle the bindings return
observerListen(l) ==
    /\ listeners' = listeners \cup {l}
    /\ owed' = [owed EXCEPT ![l] = <<>>]
    /\ last' = Event("observerListen", l, 0, FALSE, NoRes, "", "")
    /\ UNCHANGED <<current, received, bindingVars, pure>>

unsubscribe_clear(l) ==
    /\ listeners' = {}
    /\ owed' = [owed EXCEPT ![l] = <<>>]
    /\ last' = Event("unsubscribe", l, 0, FALSE, NoRes, "", "")
    /\ UNCHANGED <<current, received, bindingVars, pure>>
\* the function returned by listen: listeners.delete(fn)
unsubscribe(l) ==
    /\ listeners' = listeners \ {l}
    /\ owed' = [owed EXCEPT ![l] = <<>>]
    /\ last' = Event("unsubscribe", l, 0, FALSE, NoRes, "", "")
    /\ UNCHANGED <<current, received, bindingVars, pure>>

\* ------------------------------------------------------------ behaviours
\* the values the binding's sync hands to AsyncObserver.set
ObservedValues ==
    {AsyncLoading, AsyncError(ValidationError), AsyncData(Some(1))}

\* the cache as earlier instances of the page may have left it
EarlierCaches(k) == {EmptyMap} \cup {set(EmptyMap, k, AsyncData(Some(1)))}

\* the hook calls of the instances is, with options drawn from os
InitInstances(is, os) ==
    /\ binding \in {"react", "vue"}
    /\ opt \in [is -> os]
    /\ \E k \in {normalizeKey(key) : key \in InstanceKeys} :
          cache \in EarlierCaches(k)
    /\ state = [i \in is |-> InitialState(opt[i], cache)]
    /\ phase = [i \in is |-> "init"]
    /\ controllerRef = [i \in is |-> 0]
    /\ aborted = [i \in is |-> {}]
    /\ inflight = {}
    /\ calls = [i \in is |-> [c \in 1..MaxTrig |-> 0]]
    /\ thrown = [i \in is |-> [c \in 1..MaxTrig |-> 0]]
    /\ last = Event("init", "", 0, FALSE, NoRes, "", "")

NoPure == [fn |-> "none"]

InitBinding(os) == InitInstances(Inst, os) /\ pure = NoPure

\* React builds the observer on AsyncData(None), Vue on initialValue
InitObserver ==
    /\ current = IF binding = "react" THEN AsyncData(None)
                 ELSE state[CHOOSE i \in Inst : TRUE]
    /\ listeners = {}
    /\ received = [l \in Listeners |-> <<>>]
    /\ owed = [l \in Listeners |-> <<>>]

Init == InitBinding(Options) /\ InitObserver

Next ==
    \/ \E i \in Inst : Mount(i)
    \/ \E i \in Inst : WatchOrInterval(i)
    \/ \E i \in Inst : fetchFn(i)
    \/ \E i \in Inst, u \in Updaters : setData(i, u)
    \/ \E i \in Inst : Unmount(i)
    \/ \E r \in inflight, d \in Payloads : TransportResolve(r, d)
    \/ \E r \in inflight, e \in EnvelopeErrors : TransportFailed(r, e)
    \/ \E r \in inflight : TransportThrow(r)

Spec == Init /\ [][Next]_vars

\* the observer of one instance, driven by the binding's sync of its state
ObserverOptions == {o \in Options : /\ o.api = "useValync"
                                     /\ ~o.initialData.given
                                     /\ o.cache
                                     /\ o.retryCount = 0
                                     /\ o.fetchOnMount}

\* the state after construction of instances whose options are drawn from S
InitWith(S) == InitBinding(S) /\ InitObserver

InitObs == InitWith(ObserverOptions)

NextObs ==
    \/ \E val \in ObservedValues : ObserverSet(val)
    \/ \E l \in Listeners : listen(l)
    \/ \E l \in Listeners : observerListen(l)
    \/ \E l \in Listeners : unsubscribe(l)

SpecObs == InitObs /\ [][NextObs]_vars

\* the sync of an instance's state into its observer: React
\* useEffect(() => observerRef.current.set(state), [state]) runs after the
\* render that saw a changed state, Vue watch(state, ...) runs in the
\* flush after a change; both hand over the state as it is at that moment
ObserverSync(i) ==
    /\ i = ObservedInst
    /\ phase[i] = "mounted"
    /\ state[i] # current
    /\ ObserverSet(state[i])

\* a component subscribing through the handle the hook returned, at a
\* moment when the observer holds the instance's state
SyncListeners == {"l1"}

Synced(i) == phase[i] = "mounted" /\ state[i] = current

\* one instance with its observer and one listener of the handle
NextSync ==
    \/ \E i \in Inst : Mount(i)
    \/ \E i \in Inst : WatchOrInterval(i)
    \/ \E i \in Inst : fetchFn(i)
    \/ \E i \in Inst, u \in Updaters : setData(i, u)
    \/ \E i \in Inst : Unmount(i)
    \/ \E r \in inflight, d \in Payloads : TransportResolve(r, d)
    \/ \E r \in inflight, e \in EnvelopeErrors : TransportFailed(r, e)
    \/ \E r \in inflight : TransportThrow(r)
    \/ \E i \in Inst : ObserverSync(i)
    \/ \E l \in SyncListeners :
          Synced(ObservedInst) /\ observerListen(l)
    \/ \E l \in SyncListeners : unsubscribe(l)

SpecSync == InitObs /\ [][NextSync]_vars

\* ---------------------------------------------------- default transport
\* What fetch resolves with: resp.ok, and the outcome of resp.json(): a
\* rejection (the body is not JSON), null, or an object with a status.
ParseError == ErrorInfo("ParseError", "Invalid JSON", NoCode)
HttpError(resp) ==
    IF resp.ok THEN ErrorInfo("HttpError", "OK", "200")
    ELSE ErrorInfo("HttpError", "Internal Server Error", "500")

NoError == ErrorInfo("", "", NoCode)
Body(kind, status, data, hasError, error) ==
    [kind |-> kind, status |-> status, data |-> data, hasError |-> hasError,
     error |-> error]
Bodies ==
    {Body("invalid", "", 0, FALSE, NoError), Body("null", "", 0, FALSE, NoError),
     Body("object", "failed", 0, FALSE, NoError)}
    \cup {Body("object", "success", d, FALSE, NoError) : d \in Payloads}
    \cup {Body("object", "failed", 0, TRUE, e) : e \in EnvelopeErrors}
Responses == [ok : BOOLEAN, body : Bodies]

NormalizeResponse_rejectHttp(resp, dev) ==
    IF resp.body.kind = "invalid" THEN Failed(ParseError)
    ELSE IF ~resp.ok \/ (resp.body.kind = "null" /\ (dev \/ resp.ok))
         THEN Thrown
         ELSE IF resp.body.status = "failed"
              THEN Failed(IF resp.body.hasError THEN resp.body.error
                          ELSE HttpError(resp))
              ELSE Success(resp.body.data)
\* fetch(...).then(async (resp) => ...): the envelope the response is turned
\* into, or Thrown when the callback itself throws. dev is
\* process.env.NODE_ENV !== "production": its check evaluates
\* "status" in json, and the test after it json.status unless !resp.ok
\* already decided it; both throw a TypeError on null.
NormalizeResponse(resp, dev) ==
    IF resp.body.kind = "invalid" THEN Failed(ParseError)
    ELSE IF resp.body.kind = "null" /\ (dev \/ resp.ok) THEN Thrown
    ELSE IF ~resp.ok \/ resp.body.status = "failed"
         THEN Failed(IF resp.body.hasError THEN resp.body.error
                     ELSE HttpError(resp))
         ELSE Success(resp.body.data)

\* fetch resolved for a request of useValync: normalization, then the
\* .then or the .catch callback of attempt
FetchRespond(r, resp, dev) ==
    LET n == NormalizeResponse(resp, dev) IN
    /\ r \in inflight
    /\ opt[r.inst].api = "useValync"
    /\ CASE n.status = "success" -> ThenSuccess(r, n.data)
         [] n.status = "failed" -> ThenFailed(r, n.error)
         [] OTHER -> Catch(r)
    /\ last' = [kind |-> "respond", inst |-> r.inst, ctl |-> r.ctl,
                hit |-> FALSE, res |-> n, pre |-> "", u |-> "",
                resp |-> resp]

\* the failed envelopes a createValyn client returns, DefaultValyncClient's
\* synthetic ones included
ClientErrors ==
    EnvelopeErrors \cup {ParseError, HttpError([ok |-> FALSE])}

FetchOptions == {o \in Options : ~o.initialData.given /\ o.fetchOnMount}

NextFetch ==
    \/ \E i \in Inst : Mount(i)
    \/ \E i \in Inst : WatchOrInterval(i)
    \/ \E i \in Inst : fetchFn(i)
    \/ \E r \in inflight, resp \in Responses, dev \in BOOLEAN :
          FetchRespond(r, resp, dev)
    \/ \E r \in inflight, d \in Payloads :
          opt[r.inst].api = "createValyn" /\ TransportResolve(r, d)
    \/ \E r \in inflight, e \in ClientErrors :
          opt[r.inst].api = "createValyn" /\ TransportFailed(r, e)
    \/ \E r \in inflight : TransportThrow(r)

SpecFetch == InitWith(FetchOptions) /\ [][NextFetch]_vars

\* ------------------------------------------------------- shared cache
\* two instances of one binding on the same key, caching enabled, sharing
\* the module's cache
Inst2 == {"A", "B"}

InitShared ==
    /\ InitInstances(Inst2, ObserverOptions)
    /\ pure = NoPure
    /\ InitObserver

NextShared ==
    \/ \E i \in Inst2 : Mount(i)
    \/ \E i \in Inst2 : WatchOrInterval(i)
    \/ \E i \in Inst2 : fetchFn(i)
    \/ \E r \in inflight, d \in Payloads : TransportResolve(r, d)
    \/ \E r \in inflight, e \in EnvelopeErrors : TransportFailed(r, e)
    \/ \E r \in inflight : TransportThrow(r)

SpecShared == InitShared /\ [][NextShared]_vars

\* two instances: each is mounted, triggered, updated and unmounted while
\* the other has requests in flight; the transport answers with one payload

NextPair ==
    \/ \E i \in Inst2 : Mount(i)
    \/ \E i \in Inst2 : fetchFn(i)
    \/ \E i \in Inst2, u \in {"one"} : setData(i, u)
    \/ \E i \in Inst2 : Unmount(i)
    \/ \E r \in inflight, d \in {1} : TransportResolve(r, d)

SpecPair == InitShared /\ [][NextPair]_vars

\* ---------------------------------------------------------- retry loop
\* instances that fetch on mount; the transport answers every call, and a
\* call that is pending is eventually rejected unless it is answered first
RetryOptions == {o \in Options : ~o.initialData.given /\ o.fetchOnMount}

NextRetry ==
    \/ \E i \in Inst : Mount(i)
    \/ \E i \in Inst : fetchFn(i)
    \/ \E r \in inflight, d \in Payloads : TransportResolve(r, d)
    \/ \E r \in inflight, e \in EnvelopeErrors : TransportFailed(r, e)
    \/ \E r \in inflight : TransportThrow(r)

SpecRetry ==
    /\ InitWith(RetryOptions)
    /\ [][NextRetry]_vars
    /\ WF_vars(\E r \in inflight : TransportThrow(r))

\* ------------------------------------------------------- React pending
\* the React binding of a factory hook, every handler and every transport
\* outcome
PendingOptions == {o \in Options : o.api = "createValyn" /\ ~o.initialData.given}

InitPending == InitWith(PendingOptions) /\ binding = "react"

SpecPending == InitPending /\ [][Next]_vars

\* ------------------------------------------------------------ progress
\* an instance of either binding is mounted, triggered and unmounted; a
\* transport call that is pending is eventually answered: with a success
\* envelope, a failed envelope or a rejection
\* the promise of a transport call settles and its callback runs
Settle ==
    \/ \E r \in inflight, d \in Payloads : TransportResolve(r, d)
    \/ \E r \in inflight, e \in EnvelopeErrors : TransportFailed(r, e)
    \/ \E r \in inflight : TransportThrow(r)

NextLive ==
    \/ \E i \in Inst : Mount(i)
    \/ \E i \in Inst : WatchOrInterval(i)
    \/ \E i \in Inst : fetchFn(i)
    \/ \E i \in Inst : Unmount(i)
    \/ Settle

SpecLive ==
    /\ InitWith(PendingOptions)
    /\ [][NextLive]_vars
    /\ WF_vars(Settle)

\* ----------------------------------------------------------- other keys
\* the cache also holds what instances on another key left in it
OtherKey == StrKey("/b")
SeededCaches == {[k \in ks |-> AsyncData(Some(1))] : 
     ks \in SUBSET {normalizeKey(key) : key \in InstanceKeys \cup {OtherKey}}}

InitKeys ==
    /\ binding \in {"react", "vue"}
    /\ opt \in [Inst -> PendingOptions]
    /\ cache \in SeededCaches
    /\ state = [i \in Inst |-> InitialState(opt[i], cache)]
    /\ phase = [i \in Inst |-> "init"]
    /\ controllerRef = [i \in Inst |-> 0]
    /\ aborted = [i \in Inst |-> {}]
    /\ inflight = {}
    /\ calls = [i \in Inst |-> [c \in 1..MaxTrig |-> 0]]
    /\ thrown = [i \in Inst |-> [c \in 1..MaxTrig |-> 0]]
    /\ last = Event("init", "", 0, FALSE, NoRes, "", "")
    /\ pure = NoPure
    /\ InitObserver

\* every handler, with one updater and one payload
NextKeys ==
    \/ \E i \in Inst : Mount(i)
    \/ \E i \in Inst : WatchOrInterval(i)
    \/ \E i \in Inst : fetchFn(i)
    \/ \E i \in Inst, u \in {"one"} : setData(i, u)
    \/ \E i \in Inst : Unmount(i)
    \/ \E r \in inflight, d \in {1} : TransportResolve(r, d)
    \/ \E r \in inflight, e \in EnvelopeErrors : TransportFailed(r, e)
    \/ \E r \in inflight : TransportThrow(r)

SpecKeys == InitKeys /\ [][NextKeys]_vars

\* ------------------------------------------------------- pure functions
\* the bindings at rest while a pure function of the library is applied
PureOptions == {o \in ObserverOptions : o.retryCount = 0}

InitIdle ==
    /\ InitInstances(Inst, PureOptions)
    /\ binding = "react"
    /\ cache = EmptyMap
    /\ InitObserver

Idle == UNCHANGED <<bindingVars, observerVars>>

NoOut == <<>>

\* structured descriptors {url, ...params}: an object literal lists each
\* property name once, and its own-property order is the insertion order
ParamLists ==
    {ps \in UNION {[1..n -> {"a", "b"} \X {"1", "a b"}] : n \in 0..MaxParams} :
        \A j, k \in 1..Len(ps) : j # k => ps[j][1] # ps[k][1]}
Descriptors == {StrKey("/a")} \cup {ObjKey("/a", ps) : ps \in ParamLists}

InitKey ==
    /\ InitIdle
    /\ pure \in {[fn |-> "normalizeKey", d1 |-> d1, d2 |-> d2, out |-> NoOut] :
                   d1 \in Descriptors, d2 \in Descriptors}

\* normalizeKey of both descriptors, and of the first result again as
\* fetchFn's cache.delete(normalizeKey(keyStr)) does
ApplyNormalizeKey ==
    /\ pure.fn = "normalizeKey"
    /\ pure.out = NoOut
    /\ pure' = [pure EXCEPT
                  !.out = <<normalizeKey(pure.d1),
                            normalizeKey(pure.d2),
                            normalizeKey(StrKey(normalizeKey(pure.d1)))>>]
    /\ Idle
    /\ UNCHANGED last

SpecKey == InitKey /\ [][ApplyNormalizeKey]_vars

\* header objects: a name is absent or carries one value
HeaderMaps ==
    UNION {[ns -> {"factory", "binding"}] :
             ns \in SUBSET {"Authorization", "Accept"}}

\* object spread { ...a, ...b }
Spread(a, b) ==
    [k \in DOMAIN a \cup DOMAIN b |-> IF k \in DOMAIN b THEN b[k] ELSE a[k]]

\* headers: { ...options.init.headers, ..._options.headers }
MergeHeaders(initHeaders, factoryHeaders) == Spread(initHeaders, factoryHeaders)

InitHeaders ==
    /\ InitIdle
    /\ pure \in {[fn |-> "mergeHeaders", init |-> h, factory |-> f,
                   renders |-> 0, headers |-> h] :
                   h \in HeaderMaps, f \in HeaderMaps}

\* one call of the hook: options.init is rewritten with the merged headers,
\* so a later render merges into the earlier result
CallHook ==
    /\ pure.fn = "mergeHeaders"
    /\ pure.renders < MaxRenders
    /\ pure' = [pure EXCEPT !.renders = @ + 1,
                            !.headers = MergeHeaders(@, pure.factory)]
    /\ Idle
    /\ UNCHANGED last

SpecHeaders == InitHeaders /\ [][CallHook]_vars

\* the request init handed to the transport
\* an argument or option that was not given
Absent == "<undefined>"
RequestMethods == {"GET", "POST", "PUT"}
\* request bodies: the empty string is a body, and falsy
RequestBodies == {"", "payload"}

\* a ?? b
Coalesce(a, b) == IF a = Absent THEN b ELSE a
\* body ? .. : ..
Truthy(b) == b \notin {Absent, ""}

\* { ...options.init, method: method ?? options.init?.method ??
\*   (body ? "POST" : "GET"), body: body ?? options.init?.body }
RequestInit(method, body, init) ==
    [method |-> Coalesce(method,
                         Coalesce(init.method,
                                  IF Truthy(body) THEN "POST" ELSE "GET")),
     body |-> Coalesce(body, init.body)]

InitRequest ==
    /\ InitIdle
    /\ pure \in {[fn |-> "requestInit", method |-> m, body |-> b,
                   init |-> [method |-> im, body |-> ib], sent |-> <<>>] :
                   m \in RequestMethods \cup {Absent},
                   b \in RequestBodies \cup {Absent},
                   im \in RequestMethods \cup {Absent},
                   ib \in RequestBodies \cup {Absent}}

\* doFetch(method, body) reaching the transport call of attempt
SendRequest ==
    /\ pure.fn = "requestInit"
    /\ pure.sent = <<>>
    /\ pure' = [pure EXCEPT
                  !.sent = <<RequestInit(pure.method, pure.body, pure.init)>>]
    /\ Idle
    /\ UNCHANGED last

SpecRequest == InitRequest /\ [][SendRequest]_vars

\* --------------------------------------------------------- mounting
\* instances with and without a watch list
WatchOptions == {o \in ValyncOptions : o.api = "createValyn" /\ o.retryCount = 0}

SpecWatch == InitWith(WatchOptions) /\ [][Next]_vars

\* ----------------------------------------------------- onData transform
TransformOptions == {o \in ValyncOptions : /\ o.api = "createValyn"
                                           /\ o.retryCount = 0
                                           /\ ~o.watch
                                           /\ o.fetchOnMount
                                           /\ ~o.initialData.given}

SpecTransform == InitWith(TransformOptions) /\ [][Next]_vars

\* ------------------------------------------------------ AsyncValue API
\* AsyncValue objects live on a heap: `new` adds an object, and the state
\* slot (useState / ref) holds a reference to one of them.
AsyncValues ==
    {AsyncLoading, AsyncData(None)}
    \cup {AsyncError(e) : e \in EnvelopeErrors}
    \cup {AsyncData(Some(d)) : d \in Payloads}

JsUndefined == [by |-> "", arg |-> [kind |-> "undefined"]]
NoArgs == [kind |-> "none", error |-> NoError, option |-> None]
ErrorArg(e) == [kind |-> "error", error |-> e, option |-> None]
OptionArg(o) == [kind |-> "option", error |-> NoError, option |-> o]
\* what a handler given by the caller returns: it tells who was called with
\* what
HandlerResult(name, arg) == [by |-> name, arg |-> arg]

\* the older core calls the handler without testing that it was given
when_unconditional(a, hs) ==
    LET name == a.tag
        arg == IF isError(a) THEN ErrorArg(a.error)
               ELSE IF isData(a) THEN OptionArg(a.value) ELSE NoArgs
    IN  IF name \in hs
        THEN [calls |-> <<[handler |-> name, arg |-> arg]>>,
              ret |-> HandlerResult(name, arg)]
        ELSE [calls |-> <<>>, ret |-> [by |-> "", arg |-> [kind |-> "TypeError"]]]
\* when(h): h.loading ? h.loading() : undefined, and likewise
\* h.error(this.error), h.data(this.value); hs are the handlers given
when(a, hs) ==
    LET name == a.tag
        arg == IF isError(a) THEN ErrorArg(a.error)
               ELSE IF isData(a) THEN OptionArg(a.value) ELSE NoArgs
    IN  IF name \in hs
        THEN [calls |-> <<[handler |-> name, arg |-> arg]>>,
              ret |-> HandlerResult(name, arg)]
        ELSE [calls |-> <<>>, ret |-> JsUndefined]

\* the three predicates and the public fields of an object
Inspect(a) ==
    [isLoading |-> isLoading(a), isError |-> isError(a), isData |-> isData(a),
     value |-> IF a.tag = "data" THEN a.value ELSE None,
     error |-> IF a.tag = "error" THEN a.error ELSE NoError]

InitValue ==
    /\ InitIdle
    /\ pure \in {[fn |-> "AsyncValue", heap |-> <<a>>, made |-> <<a>>,
                   state |-> 1, handlers |-> hs, seen |-> <<>>,
                   called |-> <<>>] :
                   a \in AsyncValues, 
                   hs \in SUBSET {"loading", "error", "data"}}

\* isLoading(), isError(), isData(), .value, .error of the current state
InspectState ==
    /\ pure.fn = "AsyncValue"
    /\ pure' = [pure EXCEPT !.seen = <<Inspect(pure.heap[pure.state])>>]
    /\ Idle
    /\ UNCHANGED last

\* state.when(handlers)
CallWhen ==
    /\ pure.fn = "AsyncValue"
    /\ pure' = [pure EXCEPT
                  !.called = <<when(pure.heap[pure.state], pure.handlers)>>]
    /\ Idle
    /\ UNCHANGED last

\* setState(new AsyncLoading()), setState(new AsyncError(..)),
\* setState(new AsyncData(..)): a new object, the slot points to it; made
\* records every object as it was constructed
SetStateNew(a) ==
    /\ pure.fn = "AsyncValue"
    /\ Len(pure.heap) < MaxHeap
    /\ pure' = [pure EXCEPT !.heap = Append(@, a), !.made = Append(@, a),
                            !.state = Len(pure.heap) + 1,
                            !.seen = <<>>, !.called = <<>>]
    /\ Idle
    /\ UNCHANGED last

\* setState(cache.get(keyStr)!): the slot points to an object made earlier
SetStateCached(k) ==
    /\ pure.fn = "AsyncValue"
    /\ k \in 1..Len(pure.heap)
    /\ k # pure.state
    /\ isData(pure.heap[k])
    /\ pure' = [pure EXCEPT !.state = k, !.seen = <<>>, !.called = <<>>]
    /\ Idle
    /\ UNCHANGED last

NextValue ==
    \/ InspectState
    \/ CallWhen
    \/ \E a \in AsyncValues : SetStateNew(a)
    \/ \E k \in 1..MaxHeap : SetStateCached(k)

SpecValue == InitValue /\ [][NextValue]_vars

\* ------------------------------------------------------------ properties
Completion(e) == e.kind \in {"resolve", "failed", "throw"}
\* a later doFetch of the same instance ran after the request was issued
Superseded(e) == e.ctl < controllerRef[e.inst]
\* the request belongs to the latest doFetch of a mounted instance
Live(e) == e.ctl = controllerRef[e.inst] /\ phase[e.inst] = "mounted"
Pending(i, ctl) == \E r \in inflight : r.inst = i /\ r.ctl = ctl
\* the state an outcome of the transport stands for
StateOf(i, res) ==
    CASE res.status = "success" -> AsyncData(Some(res.data))
      [] res.status = "failed" -> AsyncError(res.error)
      [] OTHER -> AsyncError(NetworkError(i))

\* C1: React: the completion of a request that a later trigger of the same
\* instance superseded changes neither the state nor the cache and starts no
\* transport call; the completion that ends the latest trigger of a mounted
\* instance leaves the state at that trigger's outcome.
C1_ReactStaleDiscarded ==
    [][(binding = "react" /\ Completion(last'))
         => /\ Superseded(last')
                 => (state' = state /\ cache' = cache /\ calls' = calls)
            /\ (/\ Live(last')
                /\ \A r \in inflight' :
                      r.inst # last'.inst \/ r.ctl # last'.ctl)
                 => state'[last'.inst] = StateOf(last'.inst, last'.res)]_vars

\* the first request resolved after the second: the state is the second's
C1_Witness ==
    /\ binding = "react"
    /\ last.kind = "resolve"
    /\ Superseded(last)
    /\ calls[last.inst][controllerRef[last.inst]] > 0
    /\ \A r \in inflight : r.inst # last.inst
    /\ isData(state[last.inst])
    /\ state[last.inst].value.val # last.res.data

\* C2: Vue: the completion of a superseded request changes neither
\* state.value nor the cache.
C2_VueStaleDiscarded ==
    [][(binding = "vue" /\ Completion(last') /\ Superseded(last'))
         => (state' = state /\ cache' = cache)]_vars

\* C3: a transport that throws N >= 1 times and then succeeds: the latest
\* trigger of a mounted instance with retryCount = N is Resolved after N+1
\* transport calls; with retryCount = N-1 it is Failed (NetworkError) after
\* N calls, and nothing of it is left in flight.
C3_RetryBudget ==
    (Completion(last) /\ Live(last)) =>
        LET i == last.inst
            c == last.ctl
            N == thrown[i][c]
        IN  /\ (last.kind = "resolve" /\ N >= 1 /\ opt[i].retryCount = N)
                 => /\ state[i] = AsyncData(Some(last.res.data))
                    /\ calls[i][c] = N + 1
            /\ (last.kind = "throw" /\ opt[i].retryCount = N - 1)
                 => /\ isError(state[i])
                    /\ state[i].error.name = "NetworkError"
                    /\ calls[i][c] = N
                    /\ ~Pending(i, c)

C3_Witness ==
    /\ last.kind = "resolve"
    /\ Live(last)
    /\ thrown[last.inst][last.ctl] >= 1
    /\ opt[last.inst].retryCount = thrown[last.inst][last.ctl]
    /\ isData(state[last.inst])

\* C4: a doFetch started by mount, a watched value or the interval, with
\* caching enabled and an entry for the key, sets the state to the cached
\* value, calls the transport zero times, is not Pending afterwards and
\* leaves the cache as it was.
C4_CacheHitShortCircuit ==
    [][\A i \in Inst :
         (/\ last'.kind \in {"mount", "watch"}
          /\ last'.inst = i
          /\ last'.ctl > 0
          /\ opt[i].cache
          /\ keyStr(i) \in DOMAIN cache)
         => /\ state'[i] = cache[keyStr(i)]
            /\ ~isLoading(state'[i])
            /\ calls' = calls
            /\ inflight' = inflight
            /\ cache' = cache]_vars

C4_Witness ==
    /\ last.kind \in {"mount", "watch"}
    /\ last.ctl > 0
    /\ last.hit
    /\ isData(state[last.inst])

C6_FailedEnvelopeNoRetry ==
    [][(last'.kind = "failed" /\ Live(last')
          /\ thrown[last'.inst][last'.ctl] = 0)
         => LET i == last'.inst
                c == last'.ctl
            IN  /\ state'[i] = AsyncError(last'.res.error)
                /\ calls'[i][c] = 1
                /\ \A r \in inflight' : r.inst # i \/ r.ctl # c
                /\ cache' = cache]_vars

C6_Witness ==
    /\ last.kind = "failed"
    /\ Live(last)
    /\ thrown[last.inst][last.ctl] = 0
    /\ opt[last.inst].retryCount > 0
    /\ state[last.inst] = AsyncError(ValidationError)

\* C7: setData(updater) on Resolved(Some(v)) gives Resolved(Some(updater(v))),
\* on Resolved(None) gives Resolved(Some(updater(null))); the cache entry of
\* the key becomes that value when caching is enabled, and the cache is not
\* written when it is disabled.
C7_SetDataOnResolved ==
    [][\A i \in Inst :
         (last'.kind = "setData" /\ last'.inst = i /\ isData(state[i]))
         => LET arg == IF state[i].value.some
                       THEN JsVal(state[i].value.val) ELSE JsNull
                new == AsyncData(Some(Apply(last'.u, arg)))
            IN  /\ state'[i] = new
                /\ opt[i].cache
                     => (keyStr(i) \in DOMAIN cache'
                           /\ cache'[keyStr(i)] = new
                           /\ \A k \in DOMAIN cache \ {keyStr(i)} :
                                 k \in DOMAIN cache' /\ cache'[k] = cache[k])
                /\ ~opt[i].cache => cache' = cache]_vars

\* Resolved(Some(2)) with prev + 1 became Resolved(Some(3))
C7_Witness ==
    /\ last.kind = "setData"
    /\ last.pre = "data"
    /\ last.u = "inc"
    /\ state[last.inst] = AsyncData(Some(3))
    /\ opt[last.inst].cache
    /\ cache[keyStr(last.inst)] = AsyncData(Some(3))

\* C8: React: setData while the state is Pending or Failed changes nothing:
\* not the state, not the cache, not the requests in flight nor their tokens.
C8_ReactSetDataNoop ==
    [][\A i \in Inst :
         (/\ binding = "react"
          /\ last'.kind = "setData"
          /\ last'.inst = i
          /\ (isLoading(state[i]) \/ isError(state[i])))
         => /\ state' = state
            /\ cache' = cache
            /\ inflight' = inflight
            /\ aborted' = aborted
            /\ controllerRef' = controllerRef
            /\ calls' = calls]_vars

C8_Witness ==
    /\ binding = "react"
    /\ last.kind = "setData"
    /\ last.pre = "loading"
    /\ isLoading(state[last.inst])
    /\ \E r \in inflight : r.inst = last.inst

\* C9: Vue: setData while state.value is Pending or Failed leaves state.value
\* as it was and does not write the cache.
C9_VueSetDataNoop ==
    [][\A i \in Inst :
         (/\ binding = "vue"
          /\ last'.kind = "setData"
          /\ last'.inst = i
          /\ (isLoading(state[i]) \/ isError(state[i])))
         => (state' = state /\ cache' = cache)]_vars

\* C10: subscribing through the handle the binding returns calls the listener
\* once with the current state before it returns, and with nothing else.
C10_HandleReplaysCurrent ==
    [][last'.kind = "observerListen"
         => received'[last'.inst] = Append(received[last'.inst], current)]_vars


\* C11: while a listener stays subscribed to an instance's observer, every
\* value handed to it is the oldest transition of the instance it has not
\* yet received: each transition made after the subscription (Pending,
\* Failed, Resolved, setData, cache short-circuit) reaches it exactly once
\* and in the order the transitions were made.
C11_EveryTransitionDelivered ==
    [][\A l \in Listeners :
         (l \in listeners /\ l \in listeners' /\ received'[l] # received[l])
           => /\ owed[l] # <<>>
              /\ received'[l] = Append(received[l], Head(owed[l]))]_vars


\* C12: calling a subscription's unsubscribe function removes that listener
\* and no other, and calls no listener; a listener leaves the set only by
\* its own unsubscribe; every later set is delivered exactly once to each
\* listener still subscribed and not at all to the others; unsubscribing a
\* listener that is not subscribed changes nothing.
C12_UnsubscribeIsolated ==
    [][/\ last'.kind = "unsubscribe"
          => /\ listeners' = listeners \ {last'.inst}
             /\ received' = received
             /\ current' = current
             /\ last'.inst \notin listeners => listeners' = listeners
       /\ \A l \in listeners \ listeners' :
             last'.kind = "unsubscribe" /\ last'.inst = l
       /\ last'.kind = "set"
          => \A l \in Listeners :
                received'[l] = IF l \in listeners
                               THEN Append(received[l], current')
                               ELSE received[l]]_vars

\* l1 was unsubscribed after its first delivery, l2 stayed and has just
\* received a second value
C12_Witness ==
    /\ last.kind = "set"
    /\ listeners = {"l2"}
    /\ Len(received["l1"]) = 1
    /\ Len(received["l2"]) = 2
    /\ received["l2"][2] = current
    /\ received["l2"][1] = received["l1"][1]


\* the two descriptors have the same url and the same set of name/value pairs
SameDescriptor(d1, d2) ==
    /\ ~d1.isString /\ ~d2.isString
    /\ d1.url = d2.url
    /\ {d1.params[k] : k \in 1..Len(d1.params)}
         = {d2.params[k] : k \in 1..Len(d2.params)}

\* C13: descriptors with the same url and the same set of parameter
\* name/value pairs normalize to the same key, whatever the order in which
\* the parameters were inserted.
C13_KeyOrderIndependent ==
    (pure.fn = "normalizeKey" /\ pure.out # NoOut
        /\ SameDescriptor(pure.d1, pure.d2))
      => pure.out[1] = pure.out[2]


\* C14: before its mount the state of an instance is, in this order of
\* priority: from initialData when given (Resolved(Some(data)) for a success
\* envelope, Failed(error) for a failed one); else the cached entry when
\* caching is enabled and the cache has the key; else Resolved(None). It is
\* never Pending before the first trigger has run.
C14_InitialStatePriority ==
    \A i \in Inst :
       /\ phase[i] = "init"
          => state[i] =
               IF opt[i].initialData.given
               THEN IF opt[i].initialData.env.status = "success"
                    THEN AsyncData(Some(opt[i].initialData.env.data))
                    ELSE AsyncError(opt[i].initialData.env.error)
               ELSE IF cacheEnabled(i) /\ has(cache, keyStr(i))
                    THEN cache[keyStr(i)]
                    ELSE AsyncData(None)
       /\ controllerRef[i] = 0 => ~isLoading(state[i])

\* failed initialData given while the cache holds the key: the state is the
\* initialData's error, not the cached entry
C14_Witness ==
    \E i \in Inst :
       /\ phase[i] = "init"
       /\ opt[i].initialData.given
       /\ opt[i].initialData.env.status = "failed"
       /\ cacheEnabled(i) /\ has(cache, keyStr(i))
       /\ state[i] = AsyncError(opt[i].initialData.env.error)


\* C15: in every reachable state every value held by the Cache Store is a
\* Resolved value with a present payload (Some); a Pending, Failed or
\* Resolved(None) value is never stored.
C15_CacheHoldsResolvedSome ==
    \A k \in DOMAIN cache : isData(cache[k]) /\ cache[k].value.some

\* a failed completion has just been applied while the cache holds the key
C15_Witness ==
    /\ last.kind = "failed"
    /\ Live(last)
    /\ isError(state[last.inst])
    /\ cacheEnabled(last.inst)
    /\ has(cache, keyStr(last.inst))


\* the transport calls of instance i that are pending with a signal that has
\* not fired
LiveRequests(i) == {r \in inflight : r.inst = i /\ r.sig \notin aborted[i]}

\* C16: for each instance every token but the newest has fired, and at most
\* one pending transport call holds a token that has not fired: two requests
\* of one instance are never both live.
C16_OneLiveRequest ==
    \A i \in Inst :
       /\ \A c \in 1..(controllerRef[i] - 1) : c \in aborted[i]
       /\ Cardinality(LiveRequests(i)) <= 1


\* C17: the headers createValyn passes on are the union of the factory's
\* headers and the binding's init headers: a name present in both carries
\* the binding's value, a name present in one carries that one's value.
C17_BindingHeaderWins ==
    (pure.fn = "mergeHeaders" /\ pure.renders > 0)
      => /\ DOMAIN pure.headers = DOMAIN pure.init \cup DOMAIN pure.factory
         /\ \A n \in DOMAIN pure.headers :
               pure.headers[n] = IF n \in DOMAIN pure.init THEN pure.init[n]
                                 ELSE pure.factory[n]


\* an error of shape {name, message, code?}
WellFormedError(e) ==
    /\ DOMAIN e = {"name", "message", "code"}
    /\ e.name \in {"NetworkError", "ParseError", "HttpError", "ValidationError"}

\* C18: a live request that fails (the transport throws, the body does not
\* parse, the response is non-2xx, the envelope is failed) either is retried,
\* which only a thrown exception with budget left allows, or leaves nothing
\* of it in flight and the instance Failed with a well-formed error standing
\* for that failure. A trigger of a Failed instance on a cache miss makes it
\* Pending and issues one transport call with the full retryCount.
C18_FailuresEndInFailed ==
    [][\A i \in Inst :
         /\ (last'.inst = i /\ last'.kind \in {"failed", "throw", "respond"}
               /\ Live(last') /\ last'.res.status # "success")
            => \/ /\ last'.res = Thrown
                  /\ \E r \in inflight : /\ r.inst = i /\ r.ctl = last'.ctl
                                          /\ r.tries > 0
                  /\ \E r \in inflight' : r.inst = i /\ r.ctl = last'.ctl
                  /\ state'[i] = state[i]
               \/ /\ \A r \in inflight' : r.inst # i \/ r.ctl # last'.ctl
                  /\ state'[i] = StateOf(i, last'.res)
                  /\ isError(state'[i])
                  /\ WellFormedError(state'[i].error)
         /\ (last'.inst = i /\ last'.kind \in {"watch", "fetchFn"}
               /\ isError(state[i])
               /\ (last'.kind = "fetchFn" \/ ~CacheHit(i, cache)))
            => /\ isLoading(state'[i])
               /\ Request(i, last'.ctl, last'.ctl, opt[i].retryCount)
                    \in inflight'
               /\ calls'[i][last'.ctl] = 1]_vars

\* the second request of an instance, issued by a manual trigger after the
\* first one used up its retries, is pending with the full budget
C18_Witness ==
    \E i \in Inst :
       /\ last.kind = "fetchFn" /\ last.inst = i /\ last.ctl = 2
       /\ opt[i].retryCount > 0
       /\ thrown[i][1] = opt[i].retryCount + 1
       /\ isLoading(state[i])
       /\ inflight = {Request(i, 2, 2, opt[i].retryCount)}

\* the response is a refusal: its body is not JSON, or it is an object that
\* came with a non-2xx status or says status "failed"
Refusal(resp) ==
    \/ resp.body.kind = "invalid"
    \/ resp.body.kind = "object" /\ (~resp.ok \/ resp.body.status = "failed")

\* C19: whatever the retryCount, a live response that is a refusal ends the
\* trigger: the instance is Failed with ParseError, the body's error or
\* HttpError, no call is added and nothing of the trigger stays in flight, so
\* an unthrown trigger has one transport call; the same holds for a failed
\* envelope of a client; a transport call is added after the trigger only
\* when the call rejected.
C19_RetryOnlyOnThrow ==
    [][\A i \in Inst :
         /\ (last'.inst = i /\ last'.kind = "respond" /\ Live(last')
               /\ Refusal(last'.resp))
            => /\ last'.res = Failed(
                     IF last'.resp.body.kind = "invalid" THEN ParseError
                     ELSE IF last'.resp.body.hasError
                          THEN last'.resp.body.error
                          ELSE HttpError(last'.resp))
               /\ state'[i] = AsyncError(last'.res.error)
               /\ calls'[i] = calls[i]
               /\ \A r \in inflight' : r.inst # i \/ r.ctl # last'.ctl
               /\ thrown[i][last'.ctl] = 0 => calls'[i][last'.ctl] = 1
         /\ (last'.inst = i /\ last'.kind = "failed" /\ Live(last'))
            => /\ calls'[i] = calls[i]
               /\ \A r \in inflight' : r.inst # i \/ r.ctl # last'.ctl
         /\ (calls'[i] # calls[i]
               /\ last'.kind \notin {"mount", "watch", "fetchFn"})
            => /\ last'.res = Thrown
               /\ calls'[i] = [calls[i] EXCEPT ![last'.ctl] = @ + 1]]_vars

\* a non-2xx response without an error of its own has ended the first call
\* of a trigger that had retries left
C19_Witness ==
    \E i \in Inst :
       /\ last.kind = "respond" /\ last.inst = i /\ Live(last)
       /\ ~last.resp.ok /\ last.resp.body.kind = "object"
       /\ ~last.resp.body.hasError
       /\ opt[i].retryCount > 0
       /\ calls[i][last.ctl] = 1
       /\ state[i] = AsyncError(HttpError(last.resp))
       /\ \A r \in inflight : r.inst # i \/ r.ctl # last.ctl


\* C20: with caching enabled and one key for both instances, a trigger that
\* finds no cache entry issues its own transport call whatever the other
\* instance has in flight, and leaves the other's requests in flight; a live
\* success completion overwrites the cache entry with its own value and
\* sets the state of its own instance only.
C20_SharedKeyLastWriteWins ==
    [][\A i \in Inst2 :
         /\ (last'.inst = i /\ last'.kind \in {"mount", "watch", "fetchFn"}
               /\ (last'.kind = "fetchFn" \/ ~CacheHit(i, cache)))
            => /\ calls'[i][last'.ctl] = 1
               /\ Request(i, last'.ctl, last'.ctl, opt[i].retryCount)
                    \in inflight'
               /\ \A r \in inflight : r.inst # i => r \in inflight'
         /\ (last'.inst = i /\ last'.kind = "resolve" /\ Live(last'))
            => /\ cache'[keyStr(i)] = AsyncData(Some(last'.res.data))
               /\ state'[i] = AsyncData(Some(last'.res.data))
               /\ \A j \in Inst2 \ {i} : state'[j] = state[j]]_vars

\* both instances missed the cache at their mount and called the transport;
\* A's request resolved with 1, then B's with 2: the cache holds 2, A shows
\* 1 and B shows 2
C20_Witness ==
    /\ keyStr("A") = keyStr("B")
    /\ controllerRef = [i \in Inst2 |-> 1]
    /\ calls["A"][1] = 1 /\ calls["B"][1] = 1
    /\ inflight = {}
    /\ last.kind = "resolve" /\ last.inst = "B"
    /\ state["A"] = AsyncData(Some(1))
    /\ state["B"] = AsyncData(Some(2))
    /\ cache[keyStr("A")] = AsyncData(Some(2))


\* C21: of isLoading(), isError(), isData() exactly one is true of an
\* AsyncValue, the one of its variant; an AsyncData shows the Option and an
\* AsyncError the error it was built with; a transition points the state to
\* another object and changes no object made before.
C21_OneVariant ==
    [][pure'.fn = "AsyncValue"
         => /\ pure'.seen # <<>>
               => LET a == pure'.made[pure'.state]
                      o == pure'.seen[1]
                  IN  /\ Cardinality({n \in {"isLoading", "isError", "isData"} :
                                         o[n]}) = 1
                      /\ o.isLoading <=> a = AsyncLoading
                      /\ o.isError <=> \E e \in EnvelopeErrors :
                                           a = AsyncError(e) /\ o.error = e
                      /\ o.isData <=> \E v \in {None}
                                              \cup {Some(d) : d \in Payloads} :
                                          a = AsyncData(v) /\ o.value = v
            /\ \A k \in 1..Len(pure.heap) :
                  pure'.heap[k] = pure.heap[k] /\ pure'.heap[k] = pure.made[k]
      ]_vars

\* after Failed replaced Resolved(Some(1)) the state was inspected: isError
\* alone is true and the first object still is Resolved(Some(1))
C21_Witness ==
    /\ pure.fn = "AsyncValue"
    /\ pure.state = 2
    /\ pure.heap[1] = AsyncData(Some(1))
    /\ pure.heap[2] = AsyncError(ValidationError)
    /\ pure.seen # <<>>
    /\ pure.seen[1].isError /\ ~pure.seen[1].isData /\ ~pure.seen[1].isLoading
    /\ pure.seen[1].error = ValidationError

\* C22: when(handlers) calls the handler of the value's variant, once, with
\* nothing for Pending, the stored error for Failed and the stored Option
\* for Resolved, calls no other handler, and returns what that handler
\* returned; when that handler is not given it calls none and returns
\* undefined.
C22_WhenMatchesVariant ==
    (pure.fn = "AsyncValue" /\ pure.called # <<>>)
      => LET a == pure.heap[pure.state]
             w == pure.called[1]
             name == CASE a = AsyncLoading -> "loading"
                       [] a.tag = "error" -> "error"
                       [] OTHER -> "data"
             arg == CASE a = AsyncLoading -> NoArgs
                      [] a.tag = "error" -> ErrorArg(a.error)
                      [] OTHER -> OptionArg(a.value)
         IN  IF name \in pure.handlers
             THEN /\ w.calls = <<[handler |-> name, arg |-> arg]>>
                  /\ w.ret = HandlerResult(name, arg)
             ELSE /\ w.calls = <<>>
                  /\ w.ret = JsUndefined

\* when was called on a Failed value with only a data handler given: no
\* handler ran and undefined came back
C22_Witness ==
    /\ pure.fn = "AsyncValue"
    /\ pure.called # <<>>
    /\ pure.heap[pure.state] = AsyncError(ValidationError)
    /\ pure.handlers = {"data"}
    /\ pure.called[1] = [calls |-> <<>>, ret |-> JsUndefined]


\* C23: mounting an instance with fetchOnMount false, or with initialData,
\* issues no transport call, starts no run of the fetch algorithm and leaves
\* the state at its seed; mounting one with fetchOnMount true or unset and no
\* initialData runs the fetch algorithm exactly once.
C23_MountFetchesAsConfigured ==
    [][\A i \in Inst :
         (phase[i] = "init" /\ phase'[i] = "mounted")
           => IF ~opt[i].fetchOnMount \/ opt[i].initialData.given
              THEN /\ calls'[i] = calls[i]
                   /\ inflight' = inflight
                   /\ controllerRef'[i] = controllerRef[i]
                   /\ state'[i] = state[i]
              ELSE controllerRef'[i] = controllerRef[i] + 1
      ]_vars


\* C24: a success envelope completing the latest trigger of a mounted
\* instance leaves the state Resolved(Some(t)), t being what the onData
\* transform returned for the payload when a transform is configured,
\* whatever it returned, and the payload otherwise; with caching enabled the
\* cache entry of the key is that same value, with caching disabled the cache
\* is not written.
C24_SuccessAppliesTransform ==
    [][(last'.kind = "resolve" /\ Live(last'))
         => LET i == last'.inst
                d == last'.res.data
                t == IF opt[i].onData = "none" THEN d ELSE onData(opt[i], d)
                sd == AsyncData(Some(t))
            IN  /\ state'[i] = sd
                /\ IF opt[i].cache
                   THEN /\ has(cache', keyStr(i))
                        /\ cache'[keyStr(i)] = sd
                   ELSE cache' = cache]_vars


\* C25: the method and the body sent to the transport are the per-call
\* override when one is given, else the binding's init value when one is
\* given, else the default; the default method is POST when a body is sent
\* and GET when none is sent (an absent body being the default body).
C25_MostSpecificWins ==
    (pure.fn = "requestInit" /\ pure.sent # <<>>)
      => LET sent == pure.sent[1]
             bodySent == sent.body # Absent
         IN  /\ sent.body = IF pure.body # Absent THEN pure.body
                            ELSE IF pure.init.body # Absent THEN pure.init.body
                            ELSE Absent
             /\ sent.method = IF pure.method # Absent THEN pure.method
                              ELSE IF pure.init.method # Absent
                                   THEN pure.init.method
                              ELSE IF bodySent THEN "POST" ELSE "GET"


\* C26: the default transport turns every response into an envelope and
\* never throws on a parsed body: a body that is not JSON gives the failed
\* envelope ParseError; otherwise a non-2xx response or a body with status
\* "failed" gives a failed envelope with the body's error, or an HttpError
\* with the HTTP status as code when the body has none; only a 2xx response
\* whose body is not "failed" gives the success envelope.
C26_EveryResponseAnEnvelope ==
    last.kind = "respond"
      => LET resp == last.resp
             res == last.res
         IN  /\ res.status \in {"success", "failed"}
             /\ resp.body.kind = "invalid" => res = Failed(ParseError)
             /\ (resp.body.kind # "invalid"
                   /\ (~resp.ok \/ resp.body.status = "failed"))
                  => res = Failed(IF resp.body.hasError THEN resp.body.error
                                  ELSE HttpError(resp))
             /\ res.status = "success"
                  <=> (resp.ok /\ resp.body.kind # "invalid"
                         /\ resp.body.status # "failed")


\* C27: a mount, trigger, setData or unmount of one instance fires no
\* cancellation token of another instance, replaces no controller of it and
\* removes none of its transport calls in flight, so no completion of the
\* other instance is discarded because of it; also when both use one key.
C27_NoCrossCancellation ==
    [][\A a \in Inst2, b \in Inst2 :
         (/\ a # b
          /\ last'.inst = a
          /\ last'.kind \in {"mount", "watch", "fetchFn", "setData", "unmount"})
         => /\ aborted'[b] = aborted[b]
            /\ controllerRef'[b] = controllerRef[b]
            /\ {r \in inflight' : r.inst = b} = {r \in inflight : r.inst = b}
      ]_vars

\* A was triggered manually while B, on the same key, has a transport call
\* in flight whose token has not fired
C27_Witness ==
    /\ last.kind = "fetchFn"
    /\ last.inst = "A"
    /\ keyStr("A") = keyStr("B")
    /\ \E r \in inflight : r.inst = "B" /\ r.sig \notin aborted["B"]


\* C28: the retry loop terminates: transport calls in flight are eventually
\* all settled; no trigger ever has more than retryCount + 1 transport calls,
\* whatever the transport does; and when every call of an instance's only
\* trigger was rejected and none is left, the transport was called exactly
\* retryCount + 1 times and the state is Failed with name NetworkError.
C28_RetryLoopTerminates ==
    /\ [](\A i \in Inst : \A c \in 1..MaxTrig :
             calls[i][c] <= opt[i].retryCount + 1)
    /\ []((/\ last.kind = "throw"
           /\ last.ctl = 1
           /\ controllerRef[last.inst] = 1
           /\ ~Pending(last.inst, 1)
           /\ thrown[last.inst][1] = calls[last.inst][1])
            => /\ calls[last.inst][1] = opt[last.inst].retryCount + 1
               /\ isError(state[last.inst])
               /\ state[last.inst].error.name = "NetworkError")
    /\ (inflight # {}) ~> (inflight = {})

\* the only trigger of an instance with retryCount > 0 ended after
\* retryCount + 1 rejected calls, in Failed(NetworkError)
C28_Witness ==
    /\ last.kind = "throw"
    /\ controllerRef[last.inst] = 1
    /\ opt[last.inst].retryCount > 0
    /\ ~Pending(last.inst, 1)
    /\ thrown[last.inst][1] = opt[last.inst].retryCount + 1
    /\ calls[last.inst][1] = opt[last.inst].retryCount + 1
    /\ isError(state[last.inst])
    /\ state[last.inst].error.name = "NetworkError"


\* C29: in both bindings a rejection (the abort rejection included) of a
\* transport call of a request that a later trigger of the same instance
\* superseded starts no transport call and changes no state (the branch that
\* calls onError is the one that sets the state), whatever budget is left.
C29_SupersededNeverRetries ==
    [][(last'.kind = "throw" /\ Superseded(last'))
         => /\ calls' = calls
            /\ inflight' \subseteq inflight
            /\ state' = state]_vars


\* C30: React: while a mounted instance has a transport call of its latest
\* trigger in flight (the first call or a retry), its state is Pending; and
\* a step that takes the state of an instance out of Pending is the
\* completion of its latest trigger or a trigger of that instance.
C30_ReactPendingWhileInFlight ==
    /\ [](\A i \in Inst :
             (/\ binding = "react"
              /\ phase[i] = "mounted"
              /\ Pending(i, controllerRef[i]))
             => isLoading(state[i]))
    /\ [][\A i \in Inst :
            (binding = "react" /\ isLoading(state[i]) /\ ~isLoading(state'[i]))
            => /\ last'.inst = i
               /\ \/ Completion(last') /\ last'.ctl = controllerRef[i]
                  \/ last'.kind \in {"mount", "watch", "fetchFn"}]_vars

\* a call of the latest trigger was rejected and its retry is in flight,
\* the state still Pending
C30_Witness ==
    /\ binding = "react"
    /\ last.kind = "throw"
    /\ phase[last.inst] = "mounted"
    /\ last.ctl = controllerRef[last.inst]
    /\ \E r \in inflight : /\ r.inst = last.inst
                            /\ r.ctl = last.ctl
                            /\ r.tries < opt[last.inst].retryCount
    /\ isLoading(state[last.inst])


\* C31: with every transport call eventually answered, a mounted instance
\* that is Pending eventually is Resolved or Failed, or is unmounted; also
\* when its requests were superseded.
C31_PendingEventuallySettles ==
    \A i \in Inst :
       (isLoading(state[i]) /\ phase[i] = "mounted")
         ~> (~isLoading(state[i]) \/ phase[i] = "unmounted")

\* the second trigger of a mounted instance completed after it had
\* superseded the first, and the instance is no longer Pending
C31_Witness ==
    /\ Completion(last)
    /\ last.ctl = 2
    /\ controllerRef[last.inst] = 2
    /\ calls[last.inst][1] > 0
    /\ phase[last.inst] = "mounted"
    /\ inflight = {}
    /\ ~isLoading(state[last.inst])


\* C32: no operation of an instance configured with cache: false (mount,
\* watch or interval trigger, manual trigger, request completion, setData)
\* changes the cache.
C32_CacheDisabledFrame ==
    [][\A i \in Inst :
         (/\ ~opt[i].cache
          /\ last'.inst = i
          /\ last'.kind \in {"mount", "watch", "fetchFn", "setData",
                             "resolve", "failed", "throw"})
         => cache' = cache]_vars


\* C33: every operation of an instance bound to the normalized key k
\* (trigger, completion, retry, setData, manual eviction) leaves the cache
\* entries of all other keys as they were: none added, removed or replaced.
C33_OtherKeysUntouched ==
    [][\A i \in Inst :
         last'.inst = i
           => \A k \in (DOMAIN cache \cup DOMAIN cache') \ {keyStr(i)} :
                 /\ has(cache, k)
                 /\ has(cache', k)
                 /\ cache'[k] = cache[k]]_vars

\* the manual trigger evicted the entry of the instance's key while the
\* cache holds an entry of another key
C33_Witness ==
    /\ last.kind = "fetchFn"
    /\ last.hit
    /\ ~has(cache, keyStr(last.inst))
    /\ has(cache, normalizeKey(OtherKey))


\* C34: an entry of the cache stays, with a Resolved value, through every
\* operation but the manual trigger's eviction of its key: only the manual
\* trigger of an instance on that key removes it, only a success completion
\* or a setData of an instance on that key replaces it, and what replaces it
\* is Resolved.
C34_EntriesPersist ==
    [][\A k \in DOMAIN cache :
         /\ ~has(cache', k)
              => (last'.kind = "fetchFn" /\ keyStr(last'.inst) = k)
         /\ has(cache', k)
              => /\ isData(cache'[k])
                 /\ cache'[k] # cache[k]
                      => /\ last'.kind \in {"resolve", "setData"}
                         /\ keyStr(last'.inst) = k]_vars

\* a request of an instance whose key has an entry exhausted its retries:
\* the instance is Failed and the entry is still there
C34_Witness ==
    /\ last.kind = "throw"
    /\ isError(state[last.inst])
    /\ has(cache, keyStr(last.inst))
    /\ isData(cache[keyStr(last.inst)])


\* C35: useValync and createValyn, React and Vue: the promise callback that
\* ends the latest trigger of a mounted instance calls exactly one of
\* onSuccess and onError, once: onSuccess with the data of the Resolved
\* state it sets, or onError with the error of the Failed state it sets; a
\* callback that retries, or that belongs to a superseded request, calls
\* neither.
C35_OneCallbackPerCompletion ==
    [][Completion(last')
         => LET i == last'.inst
                c == last'.ctl
                ended == \A r \in inflight' : r.inst # i \/ r.ctl # c
            IN  /\ (Live(last') /\ ended)
                     => /\ Len(last'.cb) = 1
                        /\ ~isLoading(state'[i])
                        /\ isData(state'[i])
                             => last'.cb[1] = onSuccess(state'[i].value.val)
                        /\ isError(state'[i])
                             => last'.cb[1] = onError(state'[i].error)
                /\ (Superseded(last') \/ (Live(last') /\ ~ended))
                     => last'.cb = <<>>]_vars


\* C36: the completion of a request of an instance that was unmounted,
\* however the request was triggered and with or without initialData,
\* writes nothing to the cache, changes no state and starts no transport
\* call.
C36_UnmountedCompletionInert ==
    [][(Completion(last') /\ phase[last'.inst] = "unmounted")
         => /\ cache' = cache
            /\ state' = state
            /\ calls' = calls
            /\ inflight' \subseteq inflight]_vars


\* C37: a setData call starts no transport call and aborts nothing: the
\* transport calls made, the requests in flight, the controllers and the
\* tokens that have fired are the same before and after it.
C37_SetDataLeavesRequests ==
    [][last'.kind = "setData"
         => /\ calls' = calls
            /\ inflight' = inflight
            /\ controllerRef' = controllerRef
            /\ aborted' = aborted]_vars

\* setData was called while a transport call of the instance is in flight
\* with a token that has not fired
C37_Witness ==
    /\ last.kind = "setData"
    /\ \E r \in inflight : /\ r.inst = last.inst
                            /\ r.sig \notin aborted[last.inst]


\* the URL-encoded name=value pairs joined by "&"
RECURSIVE JoinPairs(_)
JoinPairs(ps) ==
    LET n == Len(ps)
        pair == UrlEncode(ps[n][1]) \o "=" \o UrlEncode(ps[n][2])
    IN  IF n = 0 THEN ""
        ELSE IF n = 1 THEN pair
        ELSE JoinPairs(SubSeq(ps, 1, n - 1)) \o "&" \o pair

\* C38: normalizeKey returns a string as it is, and for a descriptor returns
\* url, "?", and the URL-encoded name=value pairs of the other fields joined
\* by "&" (nothing after "?" when there are none); it has a result for every
\* key, and normalizeKey of its result is that result, so the key the manual
\* trigger evicts is the instance's key.
C38_NormalizeKeyShape ==
    (pure.fn = "normalizeKey" /\ pure.out # NoOut)
      => /\ pure.d1.isString => pure.out[1] = pure.d1.str
         /\ ~pure.d1.isString
              => pure.out[1] = pure.d1.url \o "?" \o JoinPairs(pure.d1.params)
         /\ (~pure.d1.isString /\ pure.d1.params = <<>>)
              => pure.out[1] = pure.d1.url \o "?"
         /\ pure.out[3] = pure.out[1]

\* a descriptor with two parameters, one of them with a space, normalized
C38_Witness ==
    /\ pure.fn = "normalizeKey"
    /\ pure.out # NoOut
    /\ pure.d1 = ObjKey("/a", <<<<"a", "1">>, <<"b", "a b">>>>)
    /\ pure.out[1] = "/a?a=1&b=a+b"
    /\ pure.out[3] = "/a?a=1&b=a+b"

=============================================================================
